---- MODULE Spec2Model ----
(***************************************************************************)
(* ba.Actor (src/assets/src/ba_data/python/ba/_actor.py) as a state        *)
(* machine: actors are constructed in the current Activity, called by      *)
(* code that holds a reference to them, retained by their Activity, and    *)
(* finalized (__del__) once nothing references them.  The Activity, the    *)
(* engine nodes and the context (_ba.getactivity) are the environment.     *)
(*                                                                         *)
(* Every method of Actor is an operator that computes the method's         *)
(* outcome from the current state: what it returns or raises, and the      *)
(* calls it makes on its collaborators (node.delete(),                     *)
(* activity.retain_actor(self), self.handlemessage(msg), the error         *)
(* printers).  The action of a method applies that outcome.                *)
(***************************************************************************)
EXTENDS Integers, Sequences, FiniteSets, TLC

\* ------------------------------------------------------------------ bounds
MaxActors == 1
MaxActivities == 2
MaxNodes == 1

Actors == 1..MaxActors
Activities == 1..MaxActivities
Nodes == 1..MaxNodes

\* Python's None, for an optional actor, activity or node id.
None == 0

\* The message objects passed to handlemessage: a ba.DieMessage and an
\* object of another type.
Messages == {"DieMessage", "HitMessage"}

VARIABLES
    actState,         \* Activity v: "alive", "expired", "gone" (collected)
    actor_weak_refs,  \* Activity v's registry: the actors its live weak references name
    actor_refs,       \* Activity v's retained (strongly referenced) actors, as
                      \* a set: all entries of an actor are released together
    nodeState,        \* engine node n: "exists", "deleted"
    status,           \* Actor a: "unborn", "partial" (__init__ raised), "live", "dead"
                      \* (finalized: the object and its attributes are no more)
    _activity,        \* Actor a's self._activity: the Activity the weakref was made of
    node,             \* Actor a's self.node
    held,             \* some Python reference to Actor a exists outside its Activity
    call              \* the method call that has just run, with its outcome,
                      \* until control is back with the caller (NoCall)

actorVars == <<status, _activity, node, held>>
progVars == <<actState, actor_weak_refs, actor_refs, nodeState,
              status, _activity, node, held>>
vars == <<actState, actor_weak_refs, actor_refs, nodeState,
          status, _activity, node, held, call>>

\* ------------------------------------------------------------ outcomes
\* What a call did: exc is the exception that left it ("" when it returned),
\* kind/id/b its return value, delete the node it called delete() on, retain
\* the Activity it called retain_actor(self) on, msgs the messages it passed
\* to self.handlemessage, report whether it printed an error.
Outcome(exc, kind, id, b) ==
    [exc |-> exc, kind |-> kind, id |-> id, b |-> b,
     delete |-> None, retain |-> None, msgs |-> <<>>, report |-> FALSE]

Raise(exc) == Outcome(exc, "raise", None, FALSE)
ReturnNone == Outcome("", "None", None, FALSE)
ReturnBool(b) == Outcome("", "bool", None, b)
ReturnActor(a) == Outcome("", "Actor", a, FALSE)
ReturnActivity(v) == Outcome("", "Activity", v, FALSE)
ReturnUnhandled == Outcome("", "UNHANDLED", None, FALSE)

\* What a call is made with, besides self: doraise of getactivity; node, the
\* argument of __init__, and ctx, the Activity of the context it runs in;
\* override, whether the actor's class overrides handlemessage by a method
\* that raises.
NoArgs == [doraise |-> FALSE, node |-> None, ctx |-> None, override |-> FALSE]

\* A call: the method, the actor, what it was made with and its outcome.
Call(op, self, args, out) == [op |-> op, self |-> self, args |-> args, out |-> out]

NoCall == Call("", None, NoArgs, ReturnNone)

\* ---------------------------------------------------- the environment
\* _ba.getactivity() in a context whose Activity is current (None: the
\* context has none): that Activity, ActivityNotFoundError without one.
ba_getactivity(current) ==
    IF current = None THEN Raise("ActivityNotFoundError")
    ELSE ReturnActivity(current)

\* ba.Activity.is_expired()
Activity_is_expired(v) == actState[v] = "expired"

\* ba.Node.exists()
Node_exists(n) == nodeState[n] = "exists"

\* Calling the weakref self._activity(): the Activity while it is around.
weakref_call(self) ==
    IF actState[_activity[self]] = "gone" THEN None ELSE _activity[self]

\* ------------------------------------------------------- Actor methods
\* Actor.__init__(node): the attributes it leaves and the Activity it
\* registers with; a raise of _ba.getactivity() leaves 'node' alone set.
\* __init__ without the add_actor_weak_ref call.
init_unregistered(nodeArg, current) ==
    LET activity == ba_getactivity(current) IN
    IF activity.exc # ""
    THEN [exc |-> activity.exc, node |-> None, _activity |-> None, register |-> None]
    ELSE [exc |-> "", node |-> IF nodeArg # None THEN nodeArg ELSE None,
          _activity |-> activity.id, register |-> None]

__init__(nodeArg, current) ==
    LET activity == ba_getactivity(current) IN
    IF activity.exc # ""
    THEN [exc |-> activity.exc, node |-> None, _activity |-> None, register |-> None]
    ELSE [exc |-> "", node |-> IF nodeArg # None THEN nodeArg ELSE None,
          _activity |-> activity.id, register |-> activity.id]

\* getactivity that raises whatever doraise says.
getactivity_always_raises(self, doraise) ==
    IF _activity[self] = None THEN Raise("AttributeError")
    ELSE LET activity == weakref_call(self) IN
         IF activity = None THEN Raise("ActivityNotFoundError")
         ELSE ReturnActivity(activity)

getactivity(self, doraise) ==
    IF _activity[self] = None THEN Raise("AttributeError")
    ELSE LET activity == weakref_call(self) IN
         IF activity = None /\ doraise THEN Raise("ActivityNotFoundError")
         ELSE IF activity = None THEN ReturnNone
         ELSE ReturnActivity(activity)

\* is_expired with the dead weak reference answered like a live Activity.
is_expired_gone_false(self) ==
    LET activity == getactivity(self, FALSE) IN
    IF activity.exc # "" THEN activity
    ELSE IF activity.kind = "None" THEN ReturnBool(FALSE)
    ELSE ReturnBool(Activity_is_expired(activity.id))

is_expired(self) ==
    LET activity == getactivity(self, FALSE) IN
    IF activity.exc # "" THEN activity
    ELSE IF activity.kind = "None" THEN ReturnBool(TRUE)
    ELSE ReturnBool(Activity_is_expired(activity.id))

\* handlemessage that takes every message for a DieMessage.
handlemessage_any_dies(self, msg) ==
    [ReturnNone EXCEPT !.delete = node[self]]

handlemessage(self, msg) ==
    IF msg = "DieMessage"
    THEN [ReturnNone EXCEPT !.delete = node[self]]
    ELSE ReturnUnhandled

\* self.handlemessage(msg) as dispatched on the actor's class: the default
\* method, or an override that raises.
self_handlemessage(self, msg, override) ==
    IF override THEN Raise("Exception") ELSE handlemessage(self, msg)

\* __del__ that leaves the teardown out: no actor sends itself the message.
del_never_dies(self, override) ==
    LET expired == is_expired(self) IN
    IF expired.exc # "" THEN [ReturnNone EXCEPT !.report = TRUE]
    ELSE ReturnNone

\* __del__ without the try/except: what is raised inside leaves it.
del_unprotected(self, override) ==
    LET expired == is_expired(self) IN
    IF expired.exc # "" THEN expired
    ELSE IF ~expired.b
    THEN LET h == self_handlemessage(self, "DieMessage", override) IN
         [h EXCEPT !.msgs = <<"DieMessage">>]
    ELSE ReturnNone

__del__(self, override) ==
    LET expired == is_expired(self) IN
    IF expired.exc # "" THEN [ReturnNone EXCEPT !.report = TRUE]
    ELSE IF ~expired.b
    THEN LET h == self_handlemessage(self, "DieMessage", override) IN
         [ReturnNone EXCEPT !.msgs = <<"DieMessage">>, !.delete = h.delete,
                            !.report = (h.exc # "")]
    ELSE ReturnNone

_handlemessage_sanity_check(self) ==
    [ReturnNone EXCEPT !.report = is_expired(self).b]

\* autoretain that returns self without the retain_actor call.
autoretain_forgets(self) ==
    LET activity == weakref_call(self) IN
    IF activity = None THEN Raise("ActivityNotFoundError")
    ELSE ReturnActor(self)

autoretain(self) ==
    LET activity == weakref_call(self) IN
    IF activity = None THEN Raise("ActivityNotFoundError")
    ELSE [ReturnActor(self) EXCEPT !.retain = activity]

on_expire(self) == ReturnNone

\* exists that is False for an expired actor.
exists_while_active(self) ==
    IF is_expired(self).b THEN ReturnBool(FALSE)
    ELSE IF node[self] # None THEN ReturnBool(Node_exists(node[self]))
    ELSE ReturnBool(TRUE)

exists(self) ==
    IF node[self] # None THEN ReturnBool(Node_exists(node[self]))
    ELSE ReturnBool(TRUE)

__bool__(self) == exists(self)

is_alive(self) == ReturnBool(TRUE)

activity(self) ==
    LET a == weakref_call(self) IN
    IF a = None THEN Raise("ActivityNotFoundError") ELSE ReturnActivity(a)

\* ------------------------------------------------------------- actions
Init ==
    /\ actState = [v \in Activities |-> "alive"]
    /\ actor_weak_refs = [v \in Activities |-> {}]
    /\ actor_refs = [v \in Activities |-> {}]
    /\ nodeState = [n \in Nodes |-> "exists"]
    /\ status = [a \in Actors |-> "unborn"]
    /\ _activity = [a \in Actors |-> None]
    /\ node = [a \in Actors |-> None]
    /\ held = [a \in Actors |-> FALSE]
    /\ call = NoCall

\* The effects of a call's outcome on the nodes and the retain lists.
Apply(op, self, args, out) ==
    /\ call' = Call(op, self, args, out)
    /\ nodeState' = IF out.delete # None
                    THEN [nodeState EXCEPT ![out.delete] = "deleted"]
                    ELSE nodeState
    /\ actor_refs' = IF out.retain # None
                     THEN [actor_refs EXCEPT ![out.retain] = @ \cup {self}]
                     ELSE actor_refs

\* Python runs one call at a time: a step starts when the last call is over.
Idle == call = NoCall

\* A caller can reach the actors it holds a reference to.
Callable(a) == Idle /\ status[a] = "live" /\ held[a]

\* Control returns to the caller.
Return ==
    /\ call # NoCall
    /\ call' = NoCall
    /\ UNCHANGED progVars

\* The engine deletes a node (its own death, or other code's delete()).
NodeDie(n) ==
    /\ Idle
    /\ nodeState[n] = "exists"
    /\ nodeState' = [nodeState EXCEPT ![n] = "deleted"]
    /\ call' = NoCall
    /\ UNCHANGED <<actState, actor_weak_refs, actor_refs, actorVars>>

\* The Activity is set as expired: it drops its retained references.
ExpireActivity(v) ==
    /\ Idle
    /\ actState[v] = "alive"
    /\ actState' = [actState EXCEPT ![v] = "expired"]
    /\ actor_refs' = [actor_refs EXCEPT ![v] = {}]
    /\ call' = NoCall
    /\ UNCHANGED <<actor_weak_refs, nodeState, actorVars>>

\* The expired Activity is collected, its lists with it; weak references to
\* it are dead from now.
ActivityGone(v) ==
    /\ Idle
    /\ actState[v] = "expired"
    /\ actState' = [actState EXCEPT ![v] = "gone"]
    /\ actor_weak_refs' = [actor_weak_refs EXCEPT ![v] = {}]
    /\ actor_refs' = [actor_refs EXCEPT ![v] = {}]
    /\ call' = NoCall
    /\ UNCHANGED <<nodeState, actorVars>>

\* The Activity prunes its retain list: the actors whose exists() is False
\* ("if actor" is False) are released.
PruneDeadActors(v) ==
    /\ Idle
    /\ actState[v] = "alive"
    /\ actor_refs' = [actor_refs EXCEPT ![v] = {a \in @ : __bool__(a).b}]
    /\ actor_refs' # actor_refs
    /\ call' = NoCall
    /\ UNCHANGED <<actState, actor_weak_refs, nodeState, actorVars>>

\* Actor(node), called in the context of a running Activity (current), or
\* in a context without an Activity (None).
Construct(a, nodeArg, current) ==
    /\ Idle
    /\ status[a] = "unborn"
    /\ \A b \in Actors : b < a => status[b] # "unborn"
    /\ IF current = None THEN TRUE ELSE actState[current] = "alive"
    /\ LET new == __init__(nodeArg, current) IN
       /\ status' = [status EXCEPT ![a] = IF new.exc = "" THEN "live" ELSE "partial"]
       /\ held' = [held EXCEPT ![a] = new.exc = ""]
       /\ node' = [node EXCEPT ![a] = new.node]
       /\ _activity' = [_activity EXCEPT ![a] = new._activity]
       /\ actor_weak_refs' = IF new.register # None
                             THEN [actor_weak_refs EXCEPT ![new.register] = @ \cup {a}]
                             ELSE actor_weak_refs
       /\ call' = Call("__init__", a, [NoArgs EXCEPT !.node = nodeArg, !.ctx = current],
                        IF new.exc = "" THEN ReturnActor(a) ELSE Raise(new.exc))
    /\ UNCHANGED <<actState, actor_refs, nodeState>>

\* The caller drops its references to the actor.
DropRef(a) ==
    /\ Callable(a)
    /\ held' = [held EXCEPT ![a] = FALSE]
    /\ call' = NoCall
    /\ UNCHANGED <<actState, actor_weak_refs, actor_refs, nodeState,
                   status, _activity, node>>

\* Nothing references the actor: the collector runs __del__.
Unreferenced(a) ==
    \/ status[a] = "partial"
    \/ status[a] = "live" /\ ~held[a] /\ \A v \in Activities : a \notin actor_refs[v]

Destroy(a, override) ==
    /\ Idle
    /\ Unreferenced(a)
    /\ Apply("__del__", a, [NoArgs EXCEPT !.override = override], __del__(a, override))
    /\ status' = [status EXCEPT ![a] = "dead"]
    /\ _activity' = [_activity EXCEPT ![a] = None]
    /\ node' = [node EXCEPT ![a] = None]
    /\ actor_weak_refs' = [v \in Activities |-> actor_weak_refs[v] \ {a}]
    /\ UNCHANGED <<actState, held>>

\* The default handlemessage, called by a holder of the actor.
HandleMessage(a, msg) ==
    /\ Callable(a)
    /\ Apply("handlemessage", a, NoArgs, [handlemessage(a, msg) EXCEPT !.msgs = <<msg>>])
    /\ UNCHANGED <<actState, actor_weak_refs, actorVars>>

\* A method that takes no argument, called by a holder of the actor.
Method(op, self) ==
    CASE op = "autoretain" -> autoretain(self)
      [] op = "is_expired" -> is_expired(self)
      [] op = "exists" -> exists(self)
      [] op = "__bool__" -> __bool__(self)
      [] op = "is_alive" -> is_alive(self)
      [] op = "activity" -> activity(self)
      [] op = "on_expire" -> on_expire(self)
      [] op = "_handlemessage_sanity_check" -> _handlemessage_sanity_check(self)

Methods == {"autoretain", "is_expired", "exists", "__bool__", "is_alive",
            "activity", "on_expire", "_handlemessage_sanity_check"}

CallMethod(a, op) ==
    /\ Callable(a)
    /\ Apply(op, a, NoArgs, Method(op, a))
    /\ UNCHANGED <<actState, actor_weak_refs, actorVars>>

GetActivity(a, doraise) ==
    /\ Callable(a)
    /\ Apply("getactivity", a, [NoArgs EXCEPT !.doraise = doraise], getactivity(a, doraise))
    /\ UNCHANGED <<actState, actor_weak_refs, actorVars>>

Next ==
    \/ \E n \in Nodes : NodeDie(n)
    \/ \E v \in Activities : ExpireActivity(v)
    \/ \E v \in Activities : ActivityGone(v)
    \/ \E v \in Activities : PruneDeadActors(v)
    \/ \E a \in Actors, n \in Nodes \cup {None}, c \in Activities \cup {None} :
          Construct(a, n, c)
    \/ \E a \in Actors : DropRef(a)
    \/ \E a \in Actors, o \in BOOLEAN : Destroy(a, o)
    \/ \E a \in Actors, msg \in Messages : HandleMessage(a, msg)
    \/ \E a \in Actors, op \in Methods : CallMethod(a, op)
    \/ \E a \in Actors, d \in BOOLEAN : GetActivity(a, d)
    \/ Return

Spec == Init /\ [][Next]_vars

TypeOK ==
    /\ actState \in [Activities -> {"alive", "expired", "gone"}]
    /\ actor_weak_refs \in [Activities -> SUBSET Actors]
    /\ actor_refs \in [Activities -> SUBSET Actors]
    /\ nodeState \in [Nodes -> {"exists", "deleted"}]
    /\ status \in [Actors -> {"unborn", "partial", "live", "dead"}]
    /\ _activity \in [Actors -> Activities \cup {None}]
    /\ node \in [Actors -> Nodes \cup {None}]
    /\ held \in [Actors -> BOOLEAN]

\* =================================================================== claims
\* The actor's Activity is no more: its weak reference is dead.
ActivityIsGone(a) == actState[_activity[a]] = "gone"

\* The actor's Activity is gone or has expired.
ActorExpired(a) == actState[_activity[a]] \in {"expired", "gone"}

\* This step is the call of method op.
Calls(op) == call = NoCall /\ call'.op = op

\* This step finalizes the fully constructed actor a.
Destroys(a) == status[a] = "live" /\ status'[a] = "dead"

\* ----------------------------------------------------------------- C1
\* C1 as stated: every destruction of an actor delivers a DieMessage to its
\* handlemessage, and deletes the node of a node-wrapping actor with the
\* default handler.
C1_DestructionAlwaysDies ==
    [][\A a \in Actors : Destroys(a) =>
          /\ call'.out.msgs = <<"DieMessage">>
          /\ (node[a] # None /\ ~call'.args.override => call'.out.delete = node[a])]_vars

\* C1 amended: the destruction of an actor that is not expired (its Activity
\* is around and has not expired) delivers a DieMessage to its handlemessage,
\* and for a node-wrapping actor with the default handler delete() is called
\* on the node, which is deleted after the step.
C1_DestructionOfLiveActorDies ==
    [][\A a \in Actors : Destroys(a) /\ ~ActorExpired(a) =>
          /\ call'.op = "__del__" /\ call'.self = a
          /\ call'.out.msgs = <<"DieMessage">>
          /\ (node[a] # None /\ ~call'.args.override =>
                 call'.out.delete = node[a] /\ nodeState'[node[a]] = "deleted")]_vars

\* A node-wrapping actor was destroyed in its living Activity and its node
\* deleted by the DieMessage.
C1_Witness ==
    /\ call.op = "__del__"
    /\ call.out.msgs = <<"DieMessage">>
    /\ call.out.delete # None
    /\ \A v \in Activities : actState[v] = "alive"

\* ----------------------------------------------------------------- C9
\* C9: __del__ sends the DieMessage if and only if the actor is not expired,
\* and then exactly one; an expired actor gets none and its node is not
\* touched; what is raised inside (by is_expired on an actor whose __init__
\* raised, by a handlemessage override) is reported and never leaves __del__.
C9_DelDiesIffNotExpired ==
    [][\A a \in Actors :
          /\ Destroys(a) =>
                /\ call'.op = "__del__" /\ call'.self = a
                /\ call'.out.msgs = IF ActorExpired(a) THEN <<>> ELSE <<"DieMessage">>
                /\ (ActorExpired(a) => call'.out.delete = None /\ nodeState' = nodeState)
                /\ call'.out.report = (~ActorExpired(a) /\ call'.args.override)
          /\ (status[a] = "partial" /\ status'[a] = "dead") =>
                /\ call'.out.msgs = <<>>
                /\ call'.out.report
                /\ nodeState' = nodeState
          /\ (Calls("__del__") => call'.out.exc = "" /\ call'.out.kind = "None")]_vars

\* An expired actor was destroyed: no message, nothing reported.
C9_Witness ==
    /\ call.op = "__del__"
    /\ call.out.msgs = <<>>
    /\ ~call.out.report
    /\ \E v \in Activities : actState[v] = "expired"

\* ----------------------------------------------------------------- C2
\* C2: is_expired() of a constructed actor never raises; it returns True when
\* the Activity is gone and the Activity's is_expired() otherwise; once the
\* Activity is gone it returns True in every later state of the actor; and on
\* no actor, constructed or left half-made by a raising __init__, does it
\* raise ActivityNotFoundError.
C2_IsExpired ==
    /\ [](\A a \in Actors : status[a] \in {"partial", "live"} =>
             is_expired(a).exc # "ActivityNotFoundError")
    /\ [](\A a \in Actors : status[a] = "live" =>
             /\ is_expired(a).exc = ""
             /\ is_expired(a).kind = "bool"
             /\ is_expired(a).b = IF ActivityIsGone(a) THEN TRUE
                                  ELSE Activity_is_expired(_activity[a]))
    /\ [](call.op = "is_expired" =>
             /\ call.out.exc = ""
             /\ call.out.b = ActorExpired(call.self))
    /\ [][\A a \in Actors : status[a] = "live" /\ status'[a] = "live" /\ ActivityIsGone(a) =>
             ActivityIsGone(a)' /\ is_expired(a)'.b]_vars

\* is_expired() has returned True for an actor whose Activity is gone.
C2_Witness ==
    /\ call.op = "is_expired"
    /\ call.out.b
    /\ ActivityIsGone(call.self)

\* ----------------------------------------------------------------- C3
\* C3 as stated: no call of an actor's method (handlemessage with any
\* message, autoretain, the queries, the destructor) made while the actor is
\* expired deletes a node.
C3_ExpiredActorDeletesNothing ==
    [][\A a \in Actors :
          status[a] = "live" /\ ActorExpired(a) /\ call = NoCall /\ call'.self = a =>
              nodeState' = nodeState]_vars

\* ----------------------------------------------------------------- C4
\* C4: the default handlemessage returns None for a DieMessage, with delete()
\* called on the actor's node when it has one and on nothing otherwise, and
\* UNHANDLED for any other message, with no node deleted; nothing else of the
\* actor, the nodes and the Activities changes in either case.
C4_HandleMessage ==
    /\ [](call.op = "handlemessage" =>
             /\ call.out.exc = ""
             /\ call.out.retain = None
             /\ IF call.out.msgs = <<"DieMessage">>
                THEN call.out.kind = "None" /\ call.out.delete = node[call.self]
                ELSE call.out.kind = "UNHANDLED" /\ call.out.delete = None)
    /\ [][Calls("handlemessage") =>
             /\ UNCHANGED <<actState, actor_weak_refs, actor_refs, actorVars>>
             /\ nodeState' = IF call'.out.msgs = <<"DieMessage">> /\ node[call'.self] # None
                             THEN [nodeState EXCEPT ![node[call'.self]] = "deleted"]
                             ELSE nodeState]_vars

\* A node-wrapping actor has left another message unhandled, its node intact.
C4_Witness ==
    /\ call.op = "handlemessage"
    /\ call.out.msgs = <<"HitMessage">>
    /\ call.out.kind = "UNHANDLED"
    /\ node[call.self] # None
    /\ nodeState[node[call.self]] = "exists"

\* ----------------------------------------------------------------- C5
\* C5 as stated, in the first of the later states: once
\* handlemessage(DieMessage()) has returned on a referenced actor, its
\* exists() and its is_alive() both return False.
C5_DeadAfterDieMessage ==
    call.op = "handlemessage" /\ call.out.msgs = <<"DieMessage">> /\ call.out.exc = "" =>
        ~exists(call.self).b /\ ~is_alive(call.self).b

\* ----------------------------------------------------------------- C6
\* C6: exists() returns node.exists() when the actor has a node and True
\* otherwise, whatever the state of its Activity; bool(actor) is the same
\* value; neither raises, calls a collaborator or changes any state.
C6_Exists ==
    /\ [](\A a \in Actors : status[a] = "live" =>
             /\ exists(a) = ReturnBool(IF node[a] # None
                                       THEN nodeState[node[a]] = "exists" ELSE TRUE)
             /\ __bool__(a) = exists(a))
    /\ [](call.op \in {"exists", "__bool__"} =>
             call.out = ReturnBool(IF node[call.self] # None
                                   THEN nodeState[node[call.self]] = "exists" ELSE TRUE))
    /\ [][Calls("exists") \/ Calls("__bool__") => UNCHANGED progVars]_vars

\* exists() has returned True for a node-wrapping actor whose Activity is gone.
C6_Witness ==
    /\ call.op = "exists"
    /\ call.out.b
    /\ node[call.self] # None
    /\ ActivityIsGone(call.self)

\* ----------------------------------------------------------------- C7
\* C7: autoretain() on an actor whose Activity is around puts the actor in
\* that Activity's retain list and returns the actor; a retained actor is not
\* destroyed, referenced otherwise or not; and the Activity lets go of a
\* retained actor only when exists() is False for it or when the Activity
\* has been set as expired.
C7_AutoRetain ==
    /\ [][\A a \in Actors : Calls("autoretain") /\ call'.self = a /\ ~ActivityIsGone(a) =>
             /\ a \in actor_refs'[_activity[a]]
             /\ call'.out.exc = "" /\ call'.out.kind = "Actor" /\ call'.out.id = a]_vars
    /\ [](\A v \in Activities : \A a \in actor_refs[v] : status[a] = "live")
    /\ [][\A v \in Activities : \A a \in actor_refs[v] :
             /\ status'[a] = "live"
             /\ (a \notin actor_refs'[v] =>
                    ~exists(a).b \/ actState'[v] \in {"expired", "gone"})]_vars

\* An actor nobody else references is alive in its Activity's retain list.
C7_Witness ==
    \E v \in Activities : \E a \in actor_refs[v] :
        status[a] = "live" /\ ~held[a] /\ call = NoCall

\* ----------------------------------------------------------------- C8
\* C8: with the Activity gone, the activity property, getactivity(True) and
\* autoretain() raise ActivityNotFoundError and change no state, and
\* getactivity(False) returns None; with the Activity around, expired or not,
\* the property and getactivity return the Activity the actor was made in.
C8_ActivityAccess ==
    /\ [](call.op \in {"activity", "getactivity", "autoretain"} =>
             IF ActivityIsGone(call.self)
             THEN IF call.op = "getactivity" /\ ~call.args.doraise
                  THEN call.out = ReturnNone
                  ELSE call.out = Raise("ActivityNotFoundError")
             ELSE /\ call.out.exc = ""
                  /\ call.op # "autoretain" => call.out = ReturnActivity(_activity[call.self]))
    /\ [][(Calls("activity") \/ Calls("getactivity") \/ Calls("autoretain"))
              /\ ActivityIsGone(call'.self) => UNCHANGED progVars]_vars

\* autoretain() has raised ActivityNotFoundError.
C8_Witness ==
    /\ call.op = "autoretain"
    /\ call.out.exc = "ActivityNotFoundError"
    /\ status[call.self] = "live"

\* ---------------------------------------------------------------- C10
\* C10: a constructor that returns has bound the actor to the Activity
\* current in its context, registered it in that Activity's weak registry and
\* set 'node' to its argument; afterwards no step changes the Activity an
\* actor is bound to, whose weak reference yields that Activity or nothing;
\* and an actor, held or retained, never keeps its expired Activity from
\* being collected.
C10_Binding ==
    /\ [](call.op = "__init__" /\ call.out.exc = "" =>
             /\ call.args.ctx \in Activities
             /\ _activity[call.self] = call.args.ctx
             /\ call.self \in actor_weak_refs[call.args.ctx]
             /\ node[call.self] = call.args.node
             /\ call.out = ReturnActor(call.self))
    /\ [](\A a \in Actors : status[a] = "live" =>
             /\ _activity[a] \in Activities
             /\ weakref_call(a) \in {_activity[a], None}
             /\ \A v \in Activities : a \in actor_weak_refs[v] => v = _activity[a])
    /\ [][\A a \in Actors : status[a] = "live" /\ status'[a] = "live" =>
             _activity'[a] = _activity[a]]_vars
    /\ [](\A v \in Activities : call = NoCall /\ actState[v] = "expired" =>
             ENABLED ActivityGone(v))

\* A held actor of the second Activity has outlived it.
C10_Witness ==
    \E a \in Actors :
        /\ status[a] = "live" /\ held[a]
        /\ _activity[a] = MaxActivities
        /\ ActivityIsGone(a)
====
